---- MODULE Spec2Model ----
(***************************************************************************)
(* Evidence Locker: the two-phase upload protocol (init -> direct PUT ->   *)
(* complete), the artifact catalog and the object store, modelled from     *)
(* src/src/api/upload.ts, src/src/api/admin.ts, src/src/core/hasher.ts and *)
(* the storage / key helpers.  Every await of a handler is a point where   *)
(* other requests may interleave, so a handler is a chain of actions       *)
(* linked by the request's pc.                                             *)
(***************************************************************************)
EXTENDS Integers, Sequences, FiniteSets, TLC

\* ------------------------------------------------------------------ bounds
MaxSessions == 2      \* init calls that succeed
MaxCalls == 2         \* complete calls issued in a run
MaxTime == 2          \* the clock runs over 0..MaxTime

\* One clock unit is the session lifetime of 5 minutes (5 * 60 * 1000 ms).
SessionTtl == 1

\* null for strings, for timestamps and for ids
Null == <<>>
NoTime == -1
NoId == 0

\* Object contents a client may PUT: byte strings of different lengths.
Blobs == {<<1>>, <<2, 2>>}

\* ----------------------------------------------------------------- helpers
\* Strings the code slices or rewrites are sequences of one-character strings.
\* A digest is the 64-hex SHA-256 shortened to 4 hex characters.
DigestA == <<"a", "a", "1", "1">>
DigestB == <<"b", "b", "2", "2">>

\* SHA-256 as lowercase hex: collision-free on the contents of the model.
Sha256(bytes) == IF bytes = <<1>> THEN DigestA ELSE DigestB

\* StreamingHasher: digest and the count of bytes observed.
computeHashFromStream(bytes) == [sha256 |-> Sha256(bytes), sizeBytes |-> Len(bytes)]

toLowerCase(c) ==
    CASE c = "A" -> "a" [] c = "B" -> "b" [] c = "C" -> "c" [] c = "D" -> "d"
      [] c = "E" -> "e" [] c = "F" -> "f" [] c = "X" -> "x" [] OTHER -> c

\* hash.replace(/^0x/i, '').toLowerCase()
normalizeSha256Hash(h) ==
    LET stripped == IF Len(h) >= 2 /\ h[1] = "0" /\ h[2] \in {"x", "X"}
                    THEN SubSeq(h, 3, Len(h)) ELSE h
    IN [i \in 1..Len(stripped) |-> toLowerCase(stripped[i])]

DangerousChars == {"<", ">", ":", "\"", "/", "\\", "|", "?", "*"}

\* .replace(/\.\./g, '_'): left to right, non-overlapping
RECURSIVE ReplaceDotDot(_)
ReplaceDotDot(f) ==
    IF Len(f) = 0 THEN <<>>
    ELSE IF Len(f) >= 2 /\ f[1] = "." /\ f[2] = "."
         THEN <<"_">> \o ReplaceDotDot(SubSeq(f, 3, Len(f)))
         ELSE <<f[1]>> \o ReplaceDotDot(Tail(f))

\* .replace(/^\.+/, '')
RECURSIVE StripLeadingDots(_)
StripLeadingDots(f) ==
    IF Len(f) > 0 /\ f[1] = "." THEN StripLeadingDots(Tail(f)) ELSE f

\* .trim()
RECURSIVE Trim(_)
Trim(f) ==
    IF Len(f) > 0 /\ f[1] = " " THEN Trim(Tail(f))
    ELSE IF Len(f) > 0 /\ f[Len(f)] = " " THEN Trim(SubSeq(f, 1, Len(f) - 1))
    ELSE f

sanitizeFilename(f) ==
    Trim(StripLeadingDots(ReplaceDotDot(
        [i \in 1..Len(f) |-> IF f[i] \in DangerousChars THEN "_" ELSE f[i]])))

\* `sha256/${sha256.slice(0, 2)}/${sha256.slice(2, 4)}/${sha256}/${sanitized}`
generateBucketKey(sha256, filename) ==
    <<"sha256", SubSeq(sha256, 1, 2), SubSeq(sha256, 3, 4), sha256,
      sanitizeFilename(filename)>>

\* What callers send as declaredSha256 (valid after normalization) and as
\* filename.
DeclaredInputs == {DigestA, <<"0", "X", "A", "a", "1", "1">>}
Filenames == {<<"e", ":", "p">>}

\* A generator that returns the same value at every call.
C34_SameUuid(u) == <<"u", "u", "i", "d", 0>>

\* crypto.randomUUID() at init: a value no other session has.
randomUUID(u) == <<"u", "u", "i", "d", u>>

\* The content identifier the secondary replica returns for some bytes.
Cid(bytes) == <<"cid", Sha256(bytes)>>

\* --------------------------------------------------------- errors and auth
\* The error classes of core/errors: name, wire code and HTTP status.
NoError == [name |-> "", code |-> "", statusCode |-> 200]
ValidationError == [name |-> "ValidationError", code |-> "VALIDATION_ERROR", statusCode |-> 400]
AuthenticationError ==
    [name |-> "AuthenticationError", code |-> "AUTHENTICATION_ERROR", statusCode |-> 401]
AuthorizationError ==
    [name |-> "AuthorizationError", code |-> "AUTHORIZATION_ERROR", statusCode |-> 403]
NotFoundError == [name |-> "NotFoundError", code |-> "NOT_FOUND", statusCode |-> 404]
StorageError == [name |-> "StorageError", code |-> "STORAGE_ERROR", statusCode |-> 500]
HashMismatchError == [name |-> "HashMismatchError", code |-> "HASH_MISMATCH", statusCode |-> 409]
UploadSessionExpiredError ==
    [name |-> "UploadSessionExpiredError", code |-> "UPLOAD_SESSION_EXPIRED", statusCode |-> 410]
FileTooLargeError == [name |-> "FileTooLargeError", code |-> "FILE_TOO_LARGE", statusCode |-> 413]
UnsupportedMimeTypeError ==
    [name |-> "UnsupportedMimeTypeError", code |-> "UNSUPPORTED_MIME_TYPE", statusCode |-> 415]
IPFSError == [name |-> "IPFSError", code |-> "IPFS_ERROR", statusCode |-> 500]
\* An error that is none of these classes (a file-system or database error).
PlainError == [name |-> "Error", code |-> "", statusCode |-> 500]

\* What a catch block replies: the error's own status and code when the error
\* is an instance of one of the classes it lists, 500 without a code otherwise.
Catch(error, handled) ==
    IF error.name \in handled
    THEN [status |-> error.statusCode, code |-> error.code]
    ELSE [status |-> 500, code |-> ""]

\* HMAC_APP_KEYS=registry:secret1,issuer-portal:secret2 as parseAppKeys()
\* returns it.
parseAppKeys == [x \in {"registry", "issuer-portal"} |->
                    IF x = "registry" THEN "secret1" ELSE "secret2"]

\* hex(HMAC-SHA256(secret, body)): one value per pair (secret, body).
generateHMACSignature(body, secret) == <<secret, body>>

verifyHMACSignature(body, signature, secret) ==
    generateHMACSignature(body, secret) = signature

\* Request headers: x-app-key ("" when absent) and x-app-sig (Null when
\* absent).  The headers a caller sends with a body: no app key, no
\* signature, an unknown app key, a known key with the signature of another
\* secret, and the two applications signing with their own secret.
Headers(body) ==
    {[appKey |-> "", sig |-> generateHMACSignature(body, "secret1")],
     [appKey |-> "registry", sig |-> Null],
     [appKey |-> "intruder", sig |-> generateHMACSignature(body, "secret1")],
     [appKey |-> "registry", sig |-> generateHMACSignature(body, "secret2")],
     [appKey |-> "registry", sig |-> generateHMACSignature(body, "secret1")],
     [appKey |-> "issuer-portal", sig |-> generateHMACSignature(body, "secret2")]}

\* The headers sent to the admin endpoints: a wrong signature, an application
\* other than the registry, and the registry.
AdminHeaders(body) ==
    {[appKey |-> "registry", sig |-> generateHMACSignature(body, "secret2")],
     [appKey |-> "issuer-portal", sig |-> generateHMACSignature(body, "secret2")],
     [appKey |-> "registry", sig |-> generateHMACSignature(body, "secret1")]}

\* The headers of application app signing body with its own secret.
Signed(app, body) == [appKey |-> app, sig |-> generateHMACSignature(body, parseAppKeys[app])]

\* authenticateRequest(extractAuthFromHeaders(headers).appKey,
\*                     headers['x-app-sig'], JSON.stringify(body)):
\* the error thrown (NoError if none) and the AuthContext returned, which
\* carries the appKey and no orgId; message is the text of the error.
authenticateRequest(h, body) ==
    IF h.appKey = "" \/ h.sig = Null
    THEN [error |-> AuthenticationError, appKey |-> "", orgId |-> Null,
          message |-> "Missing authentication headers (x-app-key, x-app-sig)"]
    ELSE IF h.appKey \notin DOMAIN parseAppKeys
    THEN [error |-> AuthenticationError, appKey |-> "", orgId |-> Null,
          message |-> "Invalid app key: " \o h.appKey]
    ELSE IF ~verifyHMACSignature(body, h.sig, parseAppKeys[h.appKey])
    THEN [error |-> AuthenticationError, appKey |-> "", orgId |-> Null,
          message |-> "Invalid signature"]
    ELSE [error |-> NoError, appKey |-> h.appKey, orgId |-> Null, message |-> ""]

\* An authorization that lets every application through.
C18_AnyApp(authContext, requiredApp) == NoError

\* requireAuth(authContext, requiredApp)
requireAuth(authContext, requiredApp) ==
    IF authContext.appKey # requiredApp THEN AuthorizationError ELSE NoError

\* ------------------------------------------------------- init request body
\* config.MAX_UPLOAD_BYTES (50 MB), in the size unit of the model.
MAX_UPLOAD_BYTES == 2

\* /^[a-f0-9]{64}$/ on digests shortened to 4 hex characters
HexLength == 4
HexChars == {"0", "1", "2", "3", "4", "5", "6", "7", "8", "9", "a", "b", "c", "d", "e", "f"}
validateSha256Hash(hash) ==
    Len(hash) = HexLength /\ \A i \in 1..Len(hash) : hash[i] \in HexChars

\* DEFAULT_ALLOWED_MIME_TYPES
DEFAULT_ALLOWED_MIME_TYPES ==
    {"application/pdf", "image/png", "image/jpeg", "image/jpg", "text/csv",
     "application/json", "application/zip", "application/x-zip-compressed",
     "text/plain", "application/octet-stream"}

\* mimeType.toLowerCase() on the MIME strings of the model
mimeToLowerCase(m) == IF m = "IMAGE/PNG" THEN "image/png" ELSE m

isAllowedMimeType(mimeType) == mimeToLowerCase(mimeType) \in DEFAULT_ALLOWED_MIME_TYPES

\* filename.toLowerCase().split('.').pop(): the part after the last dot, the
\* whole name when it has no dot.
RECURSIVE AfterLastDot(_)
AfterLastDot(f) ==
    IF \E i \in 1..Len(f) : f[i] = "."
    THEN AfterLastDot(Tail(f))
    ELSE [i \in 1..Len(f) |-> toLowerCase(f[i])]

\* extractMimeFromFilename: "" stands for null.
extractMimeFromFilename(filename) ==
    LET ext == AfterLastDot(filename) IN
    CASE ext = <<"p", "d", "f">> -> "application/pdf"
      [] ext = <<"p", "n", "g">> -> "image/png"
      [] ext = <<"c", "s", "v">> -> "text/csv"
      [] OTHER -> ""

\* The provenance context of a request body; NoContext when it has none.
NoContext == [projectId |-> Null, issuanceId |-> Null]
Context == [projectId |-> <<"p", "1">>, issuanceId |-> <<"i", "1">>]

\* A request body of /init.  sizeBytes 0, mimeHint "" and declaredSha256 Null
\* stand for an absent optional field.
InitBody(f, size, mime, declared, ctx) ==
    [filename |-> f, sizeBytes |-> size, mimeHint |-> mime,
     declaredSha256 |-> declared, context |-> ctx]

SizeInputs == {0, MAX_UPLOAD_BYTES + 1}
MimeInputs == {"", "IMAGE/PNG", "image/jpg", "application/x-msdownload"}
InvalidDigest == <<"z", "z", "1", "1">>

\* A handler that persists without checking.
C16_NoChecks(h, body) == NoError

\* The checks of /init before it persists anything, in the order of the
\* code: the error thrown, NoError when the request passes them all.
UploadInitChecks(h, body) ==
    IF authenticateRequest(h, body).error # NoError
    THEN authenticateRequest(h, body).error
    ELSE IF body.sizeBytes # 0 /\ body.sizeBytes > MAX_UPLOAD_BYTES
    THEN FileTooLargeError
    ELSE IF body.declaredSha256 # Null
            /\ ~validateSha256Hash(normalizeSha256Hash(body.declaredSha256))
    THEN ValidationError
    ELSE IF body.mimeHint # "" /\ ~isAllowedMimeType(body.mimeHint)
    THEN UnsupportedMimeTypeError
    ELSE NoError

VARIABLES
    now,        \* Date.now(), in clock units
    sessions,   \* prisma.uploadSession rows; the uploadId is the index
    store,      \* object store: key -> bytes, for the keys that hold an object
    artifacts,  \* prisma.artifact rows
    nextArt,    \* the next fresh artifact id
    reqs,       \* complete calls, in order of arrival; pc "done" = responded
    sweep,      \* the retention sweep in progress
    pins,       \* the secondary replica: the content identifiers it has pinned
    resp        \* the last reply to an /init or /admin request, with the request

vars == <<now, sessions, store, artifacts, nextArt, reqs, sweep, pins, resp>>

Uploads == 1..Len(sessions)
Calls == 1..Len(reqs)

Put(st, k, b) == [x \in (DOMAIN st) \cup {k} |-> IF x = k THEN b ELSE st[x]]
Remove(st, k) == [x \in (DOMAIN st) \ {k} |-> st[x]]

\* History kept with each call: clean says that since the call arrived no
\* stored object was overwritten or deleted and no catalog row was removed;
\* after is the set of calls that had responded when it arrived; created
\* says that the call inserted an Artifact.
Disturb(rs) == [r \in DOMAIN rs |-> [rs[r] EXCEPT !.clean = FALSE]]

NoArtifact ==
    [id |-> NoId, sha256Hex |-> Null, sizeBytes |-> 0, bucketKey |-> Null,
     cidV1 |-> Null, createdAt |-> NoTime, mime |-> "", filename |-> Null,
     uploaderOrgId |-> Null, projectId |-> Null, issuanceId |-> Null,
     verifiedAt |-> NoTime, scanStatus |-> ""]

\* A lookup that never finds the row (a wrong where-clause).
C5_FindNothing(h) == NoArtifact

\* The Artifact row whose unique column sha256Hex equals h, or NoArtifact:
\* prisma.artifact.findUnique({ where: { sha256Hex } }).
findUniqueArtifact(h) ==
    IF \E a \in artifacts : a.sha256Hex = h
    THEN CHOOSE a \in artifacts : a.sha256Hex = h
    ELSE NoArtifact

\* No admin request (retention sweep, pin, unpin, rescan) is running.
NoSweep ==
    [pc |-> "idle", todo |-> {}, cur |-> NoArtifact, deleted |-> {}, cid |-> Null,
     by |-> "", dryRun |-> FALSE]

\* No /init or /admin request has been answered yet.
NoResponse ==
    [op |-> "", headers |-> [appKey |-> "", sig |-> Null], body |-> [none |-> TRUE],
     status |-> 0, code |-> "", message |-> "", artifacts |-> {}, cidV1 |-> Null,
     authorization |-> Null, publicRead |-> FALSE, location |-> Null,
     sent |-> [none |-> TRUE]]

\* The reply to a request that is answered in the step in which it arrives
\* (a rejection, a dry run, a no-op, the 201 of /init), kept with the request
\* until it has left the server.
Reply(op, h, body, status, code, list, cid) ==
    [NoResponse EXCEPT !.op = op, !.headers = h, !.body = body, !.status = status,
                       !.code = code, !.artifacts = list, !.cidV1 = cid]

\* A catch block that sends the message of every error it catches.
C30_SendEveryMessage(error, message, handled) == message

\* The error text a catch block sends: error.message for the classes it
\* lists, 'Internal server error' for every other error.
CatchMessage(error, message, handled) ==
    IF error.name \in handled THEN message ELSE "Internal server error"

\* The reply of a catch block to an error thrown for a request with headers h:
\* an AuthenticationError carries the text authenticateRequest gave it, the
\* other classes the text of their constructor (named after the class here).
RejectedWith(op, h, body, error, message, handled) ==
    LET caught == Catch(error, handled)
    IN [Reply(op, h, body, caught.status, caught.code, {}, Null)
           EXCEPT !.message = CatchMessage(error, message, handled)]

Rejected(op, h, body, error, handled) ==
    RejectedWith(op, h, body, error,
                 IF error = AuthenticationError
                 THEN authenticateRequest(h, body).message ELSE error.name,
                 handled)

\* reply.send: the reply leaves the server.
ReplySent ==
    /\ resp # NoResponse
    /\ resp' = NoResponse
    /\ UNCHANGED <<now, sessions, store, artifacts, nextArt, reqs, sweep, pins>>

\* ------------------------------------------------------------------- init
Init ==
    /\ now = 0
    /\ sessions = <<>>
    /\ store = <<>>
    /\ artifacts = {}
    /\ nextArt = 1
    /\ reqs = <<>>
    /\ sweep = NoSweep
    /\ pins = {}
    /\ resp = NoResponse

\* prisma.uploadSession.create of /init: the row persisted for a request body
\* and the AuthContext of its caller.  The body's context is not among the
\* data written, so projectId and issuanceId keep their null default.
createUploadSession(uploadId, body, authContext) ==
    LET declared == body.declaredSha256
        bucketKey == IF declared # Null
                     THEN generateBucketKey(normalizeSha256Hash(declared), body.filename)
                     ELSE generateBucketKey(randomUUID(uploadId), body.filename)
    IN [sha256Hex |-> IF declared # Null THEN normalizeSha256Hash(declared) ELSE Null,
        bucketKey |-> bucketKey,
        status |-> "PENDING",
        expiresAt |-> now + SessionTtl,
        completedAt |-> NoTime,
        filename |-> sanitizeFilename(body.filename),
        mimeHint |-> IF body.mimeHint # "" THEN body.mimeHint
                     ELSE extractMimeFromFilename(body.filename),
        uploaderOrgId |-> authContext.orgId,
        projectId |-> Null,
        issuanceId |-> Null]

\* POST /v1/upload/init with a valid body, signed by the issuer portal:
\* declared is the caller's declaredSha256 (or Null), f the filename.
UploadInit(declared, f) ==
    /\ Len(sessions) < MaxSessions
    /\ LET body == InitBody(f, 0, "", declared, Context)
           h == Signed("issuer-portal", body)
       IN /\ UploadInitChecks(h, body) = NoError
          /\ sessions' = Append(sessions,
                 createUploadSession(Len(sessions) + 1, body, authenticateRequest(h, body)))
    /\ UNCHANGED <<now, store, artifacts, nextArt, reqs, sweep, pins, resp>>

\* The error classes the catch block of /init replies with their own status.
InitHandled == {"ValidationError", "FileTooLargeError", "UnsupportedMimeTypeError"}

\* POST /v1/upload/init with any headers and body: the checks, then the
\* session row and the 201 reply, or the reply of the catch block.
UploadInitRequest(h, body) ==
    /\ LET error == UploadInitChecks(h, body)
       IN IF error # NoError
          THEN /\ resp' = Rejected("init", h, body, error, InitHandled)
               /\ UNCHANGED sessions
          ELSE LET uploadId == Len(sessions) + 1
                   uploadSession ==
                       createUploadSession(uploadId, body, authenticateRequest(h, body))
               IN /\ Len(sessions) < MaxSessions
                  /\ sessions' = Append(sessions, uploadSession)
                  /\ resp' = [Reply("init", h, body, 201, "", {}, Null)
                                 EXCEPT !.sent = [uploadId |-> uploadId,
                                                  bucketKey |-> uploadSession.bucketKey,
                                                  expiresAt |-> uploadSession.expiresAt]]
    /\ UNCHANGED <<now, store, artifacts, nextArt, reqs, sweep, pins>>

\* The client PUTs bytes to the putUrl of session u.  The URL is the plain
\* object URL of the staging key, so the PUT overwrites whatever is there.
ClientPut(u, bytes) ==
    /\ u \in Uploads
    /\ LET k == sessions[u].bucketKey IN
        /\ ~(k \in DOMAIN store /\ store[k] = bytes)
        /\ store' = Put(store, k, bytes)
    /\ reqs' = Disturb(reqs)
    /\ UNCHANGED <<now, sessions, artifacts, nextArt, sweep, pins, resp>>

Tick ==
    /\ now < MaxTime
    /\ now' = now + 1
    /\ UNCHANGED <<sessions, store, artifacts, nextArt, reqs, sweep, pins, resp>>

\* --------------------------------------------------- POST /v1/upload/complete
Respond(r, code) == [reqs EXCEPT ![r].pc = "done", ![r].code = code]

\* The error classes the catch block of /complete replies with their own
\* status; every other error is answered 500.
CompleteHandled == {"NotFoundError", "UploadSessionExpiredError", "HashMismatchError"}

\* The call arrives with headers h: authenticate, load the session, check
\* expiry (and the bucket key, which init always sets).  u = Len(sessions) + 1
\* is an unknown uploadId.
CompleteStart(h, u) ==
    /\ Len(reqs) < MaxCalls
    /\ u \in 1..(Len(sessions) + 1)
    /\ LET authContext == authenticateRequest(h, [uploadId |-> u])
           fresh == [upload |-> u, pc |-> "hash", sha256 |-> Null, sizeBytes |-> 0,
                     artifact |-> NoArtifact, cidV1 |-> Null, code |-> 0,
                     created |-> FALSE, clean |-> TRUE,
                     after |-> {r \in Calls : reqs[r].pc = "done"},
                     auth |-> authContext]
       IN reqs' = Append(reqs,
              IF authContext.error # NoError
              THEN [fresh EXCEPT !.pc = "done",
                                 !.code = Catch(authContext.error, CompleteHandled).status]
              ELSE IF u \notin Uploads
              THEN [fresh EXCEPT !.pc = "done", !.code = 404]
              ELSE IF sessions[u].expiresAt < now
              THEN [fresh EXCEPT !.pc = "done", !.code = 410]
              ELSE fresh)
    /\ UNCHANGED <<now, sessions, store, artifacts, nextArt, sweep, pins, resp>>

\* A storage failure that gives the session up.
C27_FailureAborts(r) ==
    /\ r \in Calls /\ reqs[r].pc = "hash"
    /\ sessions[reqs[r].upload].bucketKey \notin DOMAIN store
    /\ sessions' = [sessions EXCEPT ![reqs[r].upload].status = "ABORTED"]
    /\ reqs' = Respond(r, 500)
    /\ UNCHANGED <<now, store, artifacts, nextArt, sweep, pins, resp>>

\* storage.getObject + computeHashFromStream, then the declared-digest check.
\* An absent object fails the call: the error is none the catch lists.
CompleteHash(r) ==
    /\ r \in Calls /\ reqs[r].pc = "hash"
    /\ LET s == sessions[reqs[r].upload] IN
        IF s.bucketKey \notin DOMAIN store
        THEN reqs' = Respond(r, 500)
        ELSE LET hashResult == computeHashFromStream(store[s.bucketKey]) IN
             reqs' = [reqs EXCEPT ![r].sha256 = hashResult.sha256,
                                  ![r].sizeBytes = hashResult.sizeBytes,
                                  ![r].pc = IF s.sha256Hex # Null /\ s.sha256Hex # hashResult.sha256
                                            THEN "abort" ELSE "find"]
    /\ UNCHANGED <<now, sessions, store, artifacts, nextArt, sweep, pins, resp>>

\* A mismatch that is answered without the session update.
C11_AbortSkipped(r) ==
    /\ r \in Calls /\ reqs[r].pc = "abort"
    /\ reqs' = [reqs EXCEPT ![r].pc = "done", ![r].code = 409]
    /\ UNCHANGED <<now, sessions, store, artifacts, nextArt, sweep, pins, resp>>

\* Hash mismatch: uploadSession.update(status ABORTED), then HashMismatchError.
CompleteAbort(r) ==
    /\ r \in Calls /\ reqs[r].pc = "abort"
    /\ sessions' = [sessions EXCEPT ![reqs[r].upload].status = "ABORTED"]
    /\ reqs' = Respond(r, 409)
    /\ UNCHANGED <<now, store, artifacts, nextArt, sweep, pins, resp>>

\* The deduplication lookup.
CompleteFind(r) ==
    /\ r \in Calls /\ reqs[r].pc = "find"
    /\ LET artifact == findUniqueArtifact(reqs[r].sha256) IN
        reqs' = [reqs EXCEPT ![r].artifact = artifact,
                             ![r].cidV1 = artifact.cidV1,
                             ![r].pc = IF artifact # NoArtifact THEN "dedup" ELSE "create"]
    /\ UNCHANGED <<now, sessions, store, artifacts, nextArt, sweep, pins, resp>>

\* update of the session that both branches end with
MarkComplete(u) ==
    [sessions EXCEPT ![u].status = "COMPLETE", ![u].completedAt = now]

\* A deduplication hit that replies without the session update.
C12_DedupNoUpdate(r) ==
    /\ r \in Calls /\ reqs[r].pc = "dedup"
    /\ reqs' = [reqs EXCEPT ![r].pc = "done", ![r].code = 200]
    /\ UNCHANGED <<now, sessions, store, artifacts, nextArt, sweep, pins, resp>>

\* A deduplication hit that rewrites the row with the data of its session.
C35_DedupOverwrites(r) ==
    /\ r \in Calls /\ reqs[r].pc = "dedup"
    /\ sessions' = [sessions EXCEPT ![reqs[r].upload].status = "COMPLETE",
                                    ![reqs[r].upload].completedAt = now]
    /\ artifacts' = {IF a.sha256Hex = reqs[r].sha256
                     THEN [a EXCEPT !.filename = sessions[reqs[r].upload].filename,
                                    !.mime = sessions[reqs[r].upload].mimeHint]
                     ELSE a : a \in artifacts}
    /\ reqs' = [reqs EXCEPT ![r].pc = "done", ![r].code = 200]
    /\ UNCHANGED <<now, store, nextArt, sweep, pins, resp>>

\* Deduplication hit: mark the session COMPLETE, reply with the existing row.
CompleteDedup(r) ==
    /\ r \in Calls /\ reqs[r].pc = "dedup"
    /\ sessions' = MarkComplete(reqs[r].upload)
    /\ reqs' = Respond(r, 200)
    /\ UNCHANGED <<now, store, artifacts, nextArt, sweep, pins, resp>>

\* A catalog without the unique index on the digest column.
C1_NoUniqueIndex(h) == FALSE

\* The unique index on Artifact.sha256Hex (prisma schema): an insert of a
\* digest the table already holds is refused.
UniqueViolation(h) == \E a \in artifacts : a.sha256Hex = h

\* The value of the scanStatus column of a row inserted without one.
DefaultScanStatus == "PENDING"

\* prisma.artifact.create: the insert throws on a unique violation, which
\* the handler's catch turns into a 500.
CompleteCreate(r) ==
    /\ r \in Calls /\ reqs[r].pc = "create"
    /\ IF UniqueViolation(reqs[r].sha256)
       THEN /\ reqs' = Respond(r, 500)
            /\ UNCHANGED <<artifacts, nextArt>>
       ELSE LET artifact == [id |-> nextArt,
                             sha256Hex |-> reqs[r].sha256,
                             sizeBytes |-> reqs[r].sizeBytes,
                             bucketKey |-> sessions[reqs[r].upload].bucketKey,
                             cidV1 |-> Null,
                             createdAt |-> now,
                             mime |-> IF sessions[reqs[r].upload].mimeHint # ""
                                      THEN sessions[reqs[r].upload].mimeHint
                                      ELSE "application/octet-stream",
                             filename |-> sessions[reqs[r].upload].filename,
                             uploaderOrgId |-> reqs[r].auth.orgId,
                             projectId |-> sessions[reqs[r].upload].projectId,
                             issuanceId |-> sessions[reqs[r].upload].issuanceId,
                             verifiedAt |-> now,
                             scanStatus |-> DefaultScanStatus]
            IN /\ artifacts' = artifacts \cup {artifact}
               /\ nextArt' = nextArt + 1
               /\ reqs' = [reqs EXCEPT ![r].artifact = artifact, ![r].created = TRUE,
                                       ![r].pc = "pin"]
    /\ UNCHANGED <<now, sessions, store, sweep, pins, resp>>

\* A pin failure that fails the request.
C13_PinFailureFails(r, pinned) ==
    /\ r \in Calls /\ reqs[r].pc = "pin"
    /\ reqs' = IF pinned THEN [reqs EXCEPT ![r].pc = "final"]
               ELSE [reqs EXCEPT ![r].pc = "done", ![r].code = 500]
    /\ UNCHANGED <<now, sessions, store, artifacts, nextArt, sweep, pins, resp>>

\* Optional IPFS pinning.  pinned = FALSE covers ipfs being null and every
\* failure inside the try block (all swallowed).
CompletePin(r, pinned) ==
    /\ r \in Calls /\ reqs[r].pc = "pin"
    /\ LET key == sessions[reqs[r].upload].bucketKey
           id == reqs[r].artifact.id
           stored == pinned /\ key \in DOMAIN store
           ok == stored /\ \E a \in artifacts : a.id = id
       IN /\ pins' = IF stored THEN pins \cup {Cid(store[key])} ELSE pins
          /\ IF ok
             THEN /\ artifacts' = {IF a.id = id THEN [a EXCEPT !.cidV1 = Cid(store[key])] ELSE a
                                   : a \in artifacts}
                  /\ reqs' = [reqs EXCEPT ![r].cidV1 = Cid(store[key]), ![r].pc = "final"]
             ELSE /\ reqs' = [reqs EXCEPT ![r].pc = "final"]
                  /\ UNCHANGED artifacts
    /\ UNCHANGED <<now, sessions, store, nextArt, sweep, resp>>

\* The final session update and the reply.
CompleteFinal(r) ==
    /\ r \in Calls /\ reqs[r].pc = "final"
    /\ sessions' = MarkComplete(reqs[r].upload)
    /\ reqs' = Respond(r, 200)
    /\ UNCHANGED <<now, store, artifacts, nextArt, sweep, pins, resp>>

\* ------------------------------------------ POST /v1/admin/retention/sweep
\* authenticateRequest, then requireAuth(authContext, 'registry'): the error
\* thrown at the head of every admin handler, NoError if none.
AdminChecks(h, body) ==
    IF authenticateRequest(h, body).error # NoError
    THEN authenticateRequest(h, body).error
    ELSE requireAuth(authenticateRequest(h, body), "registry")

\* A query that ignores the cutoff.
C20_FindAll(cutoffDate) == artifacts

\* prisma.artifact.findMany({ where: { createdAt: { lt: cutoffDate } } })
findManyOlder(cutoffDate) == {a \in artifacts : a.createdAt < cutoffDate}

\* A sweep arrives with headers h: authenticate and authorize, then
\* findMany(createdAt < cutoffDate); a dry run replies with the list, a real
\* sweep enters the delete loop.
SweepStart(h, cutoffDate, dryRun) ==
    /\ sweep.pc = "idle"
    /\ LET body == [beforeDate |-> cutoffDate, dryRun |-> dryRun]
           error == AdminChecks(h, body)
           oldArtifacts == findManyOlder(cutoffDate)
       IN IF error # NoError
          THEN /\ resp' = Rejected("sweep", h, body, error, {"AuthorizationError"})
               /\ UNCHANGED sweep
          ELSE IF dryRun
          THEN /\ resp' = Reply("sweep", h, body, 200, "",
                                {a.id : a \in oldArtifacts}, Null)
               /\ UNCHANGED sweep
          ELSE /\ sweep' = [NoSweep EXCEPT !.pc = "loop", !.todo = oldArtifacts,
                                           !.by = h.appKey, !.dryRun = dryRun]
               /\ UNCHANGED resp
    /\ UNCHANGED <<now, sessions, store, artifacts, nextArt, reqs, pins>>

\* storage.deleteObject of the next artifact of the list.  On an absent
\* object the S3 driver succeeds and the local driver's unlink throws, which
\* the loop's catch logs before moving on: absentThrows picks the driver.
SweepDeleteObject(a, absentThrows) ==
    /\ sweep.pc = "loop" /\ a \in sweep.todo
    /\ IF a.bucketKey \in DOMAIN store
       THEN /\ store' = Remove(store, a.bucketKey)
            /\ reqs' = Disturb(reqs)
            /\ sweep' = [sweep EXCEPT !.pc = "row", !.cur = a]
       ELSE /\ UNCHANGED <<store, reqs>>
            /\ sweep' = IF absentThrows
                        THEN [sweep EXCEPT !.todo = @ \ {a}]
                        ELSE [sweep EXCEPT !.pc = "row", !.cur = a]
    /\ UNCHANGED <<now, sessions, artifacts, nextArt, pins, resp>>

\* A loop that lists the artifact without deleting its row.
C19_ListWithoutDelete ==
    /\ sweep.pc = "row"
    /\ sweep' = [sweep EXCEPT !.pc = "loop", !.cur = NoArtifact,
                              !.todo = @ \ {sweep.cur},
                              !.deleted = @ \cup {sweep.cur.id}]
    /\ UNCHANGED <<now, sessions, store, artifacts, nextArt, reqs, pins, resp>>

\* prisma.artifact.delete({ where: { id } }): throws when the row is gone,
\* and then the artifact is not listed as deleted.
SweepDeleteRow ==
    /\ sweep.pc = "row"
    /\ LET a == sweep.cur
           present == \E x \in artifacts : x.id = a.id
       IN /\ artifacts' = {x \in artifacts : x.id # a.id}
          /\ reqs' = IF present THEN Disturb(reqs) ELSE reqs
          /\ sweep' = [sweep EXCEPT !.pc = "loop", !.cur = NoArtifact,
                                    !.todo = @ \ {a},
                                    !.deleted = IF present THEN @ \cup {a.id} ELSE @]
    /\ UNCHANGED <<now, sessions, store, nextArt, pins, resp>>

\* The loop is over: reply with the list of deleted artifacts.
SweepReply ==
    /\ sweep.pc = "loop" /\ sweep.todo = {}
    /\ sweep' = NoSweep
    /\ UNCHANGED <<now, sessions, store, artifacts, nextArt, reqs, pins, resp>>

\* ------------------------------------------------ POST /v1/admin/ipfs/pin
\* createIPFSDriver() returned a driver (IPFS_ENABLED with an API URL).
IPFS_ENABLED == TRUE

\* The error classes the catch blocks of pin and unpin reply with their own
\* status.
PinHandled == {"NotFoundError", "AuthorizationError"}

\* A pin request that goes to the replica whatever the row holds.
C23_AlwaysPin(h, sha256Hex) ==
    /\ sweep.pc = "idle"
    /\ AdminChecks(h, [sha256Hex |-> sha256Hex]) = NoError
    /\ findUniqueArtifact(sha256Hex) # NoArtifact
    /\ sweep' = [NoSweep EXCEPT !.pc = "pinFile", !.cur = findUniqueArtifact(sha256Hex),
                                !.by = h.appKey]
    /\ UNCHANGED <<now, sessions, store, artifacts, nextArt, reqs, pins, resp>>

\* A pin request arrives: authenticate and authorize, find the artifact;
\* reply at once when it is unknown, when there is no IPFS driver or when it
\* already has a cidV1.
PinStart(h, sha256Hex) ==
    /\ sweep.pc = "idle"
    /\ LET body == [sha256Hex |-> sha256Hex]
           error == AdminChecks(h, body)
           artifact == findUniqueArtifact(sha256Hex)
           thrown == IF error # NoError THEN error ELSE NotFoundError
       IN IF error # NoError \/ artifact = NoArtifact
          THEN /\ resp' = Rejected("pin", h, body, thrown, PinHandled)
               /\ UNCHANGED sweep
          ELSE IF ~IPFS_ENABLED
          THEN /\ resp' = Reply("pin", h, body, 400, "", {}, Null)
               /\ UNCHANGED sweep
          ELSE IF artifact.cidV1 # Null
          THEN /\ resp' = Reply("pin", h, body, 200, "", {}, artifact.cidV1)
               /\ UNCHANGED sweep
          ELSE /\ sweep' = [NoSweep EXCEPT !.pc = "pinFile", !.cur = artifact,
                                           !.by = h.appKey]
               /\ UNCHANGED resp
    /\ UNCHANGED <<now, sessions, store, artifacts, nextArt, reqs, pins>>

\* storage.getObject + ipfs.pinFile.  An absent object or a failing replica
\* (pinned = FALSE) throws, which the catch answers 500.
PinFile(pinned) ==
    /\ sweep.pc = "pinFile"
    /\ LET key == sweep.cur.bucketKey IN
        IF pinned /\ key \in DOMAIN store
        THEN /\ pins' = pins \cup {Cid(store[key])}
             /\ sweep' = [sweep EXCEPT !.pc = "pinUpdate", !.cid = Cid(store[key])]
        ELSE /\ sweep' = NoSweep
             /\ UNCHANGED pins
    /\ UNCHANGED <<now, sessions, store, artifacts, nextArt, reqs, resp>>

\* prisma.artifact.update({ where: { id }, data: { cidV1 } }) and the reply;
\* the update throws when the row is gone (answered 500).
PinUpdate ==
    /\ sweep.pc = "pinUpdate"
    /\ artifacts' = {IF a.id = sweep.cur.id THEN [a EXCEPT !.cidV1 = sweep.cid] ELSE a
                     : a \in artifacts}
    /\ sweep' = NoSweep
    /\ UNCHANGED <<now, sessions, store, nextArt, reqs, pins, resp>>

\* ---------------------------------------------- POST /v1/admin/ipfs/unpin
\* An unpin request arrives; an artifact without cidV1 is a no-op success.
UnpinStart(h, sha256Hex) ==
    /\ sweep.pc = "idle"
    /\ LET body == [sha256Hex |-> sha256Hex]
           error == AdminChecks(h, body)
           artifact == findUniqueArtifact(sha256Hex)
           thrown == IF error # NoError THEN error ELSE NotFoundError
       IN IF error # NoError \/ artifact = NoArtifact
          THEN /\ resp' = Rejected("unpin", h, body, thrown, PinHandled)
               /\ UNCHANGED sweep
          ELSE IF ~IPFS_ENABLED
          THEN /\ resp' = Reply("unpin", h, body, 400, "", {}, Null)
               /\ UNCHANGED sweep
          ELSE IF artifact.cidV1 = Null
          THEN /\ resp' = Reply("unpin", h, body, 200, "", {}, Null)
               /\ UNCHANGED sweep
          ELSE /\ sweep' = [NoSweep EXCEPT !.pc = "unpinFile", !.cur = artifact,
                                           !.by = h.appKey]
               /\ UNCHANGED resp
    /\ UNCHANGED <<now, sessions, store, artifacts, nextArt, reqs, pins>>

\* ipfs.unpinFile(artifact.cidV1); a failing replica (unpinned = FALSE)
\* throws, which the catch answers 500.
UnpinFile(unpinned) ==
    /\ sweep.pc = "unpinFile"
    /\ IF unpinned
       THEN /\ pins' = pins \ {sweep.cur.cidV1}
            /\ sweep' = [sweep EXCEPT !.pc = "unpinUpdate"]
       ELSE /\ sweep' = NoSweep
            /\ UNCHANGED pins
    /\ UNCHANGED <<now, sessions, store, artifacts, nextArt, reqs, resp>>

\* An unpin that also forgets where the bytes are.
C24_UnpinRewrites ==
    /\ sweep.pc = "unpinUpdate"
    /\ artifacts' = {IF a.id = sweep.cur.id
                     THEN [a EXCEPT !.cidV1 = Null, !.bucketKey = Null] ELSE a
                     : a \in artifacts}
    /\ sweep' = NoSweep
    /\ UNCHANGED <<now, sessions, store, nextArt, reqs, pins, resp>>

\* prisma.artifact.update({ where: { id }, data: { cidV1: null } }), reply.
UnpinUpdate ==
    /\ sweep.pc = "unpinUpdate"
    /\ artifacts' = {IF a.id = sweep.cur.id THEN [a EXCEPT !.cidV1 = Null] ELSE a
                     : a \in artifacts}
    /\ sweep' = NoSweep
    /\ UNCHANGED <<now, sessions, store, nextArt, reqs, pins, resp>>

\* --------------------------------------------------- POST /v1/admin/rescan
RescanHandled == {"NotFoundError", "AuthorizationError", "StorageError"}

\* A rescan request arrives: authenticate and authorize, find the artifact.
RescanStart(h, sha256Hex) ==
    /\ sweep.pc = "idle"
    /\ LET body == [sha256Hex |-> sha256Hex]
           error == AdminChecks(h, body)
           artifact == findUniqueArtifact(sha256Hex)
           thrown == IF error # NoError THEN error ELSE NotFoundError
       IN IF error # NoError \/ artifact = NoArtifact
          THEN /\ resp' = Rejected("rescan", h, body, thrown, RescanHandled)
               /\ UNCHANGED sweep
          ELSE /\ sweep' = [NoSweep EXCEPT !.pc = "rescanHash", !.cur = artifact,
                                           !.by = h.appKey]
               /\ UNCHANGED resp
    /\ UNCHANGED <<now, sessions, store, artifacts, nextArt, reqs, pins>>

\* A rescan that marks the artifact CLEAN without comparing digests.
C22_NoCompare(local) ==
    /\ sweep.pc = "rescanHash"
    /\ sweep' = [sweep EXCEPT !.pc = "rescanUpdate"]
    /\ UNCHANGED <<now, sessions, store, artifacts, nextArt, reqs, pins, resp>>

\* storage.getObject + computeHashFromStream, then the comparison with the
\* stored digest.  A mismatch throws StorageError; so does getObject of the
\* S3 driver on an absent object, while the read stream of the local driver
\* (local = TRUE) fails with the file system's own error: the catch answers
\* 500, with the code of the error when it is a StorageError.
RescanHash(local) ==
    /\ sweep.pc = "rescanHash"
    /\ LET key == sweep.cur.bucketKey
           body == [sha256Hex |-> sweep.cur.sha256Hex]
           h == Signed(sweep.by, body)
           failed == Rejected("rescan", h, body, StorageError, RescanHandled)
       IN IF key \notin DOMAIN store
          THEN /\ sweep' = NoSweep
               /\ resp' = IF local
                          THEN Rejected("rescan", h, body, PlainError, RescanHandled)
                          ELSE failed
          ELSE IF computeHashFromStream(store[key]).sha256 # sweep.cur.sha256Hex
          THEN /\ sweep' = NoSweep
               /\ resp' = failed
          ELSE /\ sweep' = [sweep EXCEPT !.pc = "rescanUpdate"]
               /\ UNCHANGED resp
    /\ UNCHANGED <<now, sessions, store, artifacts, nextArt, reqs, pins>>

\* prisma.artifact.update(scanStatus 'CLEAN', verifiedAt now), reply; the
\* update throws when the row is gone, which the catch answers 500.
RescanUpdate ==
    /\ sweep.pc = "rescanUpdate"
    /\ LET body == [sha256Hex |-> sweep.cur.sha256Hex]
           h == Signed(sweep.by, body)
           present == \E a \in artifacts : a.id = sweep.cur.id
       IN /\ artifacts' = {IF a.id = sweep.cur.id
                           THEN [a EXCEPT !.scanStatus = "CLEAN", !.verifiedAt = now] ELSE a
                           : a \in artifacts}
          /\ resp' = Reply("rescan", h, body, IF present THEN 200 ELSE 500, "", {}, Null)
    /\ sweep' = NoSweep
    /\ UNCHANGED <<now, sessions, store, nextArt, reqs, pins>>

\* ------------------------------------- GET /v1/artifacts/:sha256Hex/verify
\* A probe that reports an artifact only while its object hashes to the digest.
C25_ProbeStore(sha256Hex) ==
    LET artifact == findUniqueArtifact(sha256Hex) IN
    IF artifact # NoArtifact /\ artifact.bucketKey \in DOMAIN store
       /\ Sha256(store[artifact.bucketKey]) = sha256Hex
    THEN artifact ELSE NoArtifact

\* prisma.artifact.findUnique({ where: { sha256Hex }, select: {...} })
findForVerify(sha256Hex) == findUniqueArtifact(sha256Hex)

\* The unauthenticated existence probe: the selected columns of the row, or
\* exists: false.
Verify(sha256Hex) ==
    /\ LET artifact == findForVerify(sha256Hex)
           exists == artifact # NoArtifact
       IN resp' = [NoResponse EXCEPT
                      !.op = "verify", !.body = [sha256Hex |-> sha256Hex],
                      !.status = 200,
                      !.sent = IF ~exists
                               THEN [exists |-> FALSE]
                               ELSE [exists |-> TRUE, sizeBytes |-> artifact.sizeBytes,
                                     mime |-> artifact.mime, cidV1 |-> artifact.cidV1,
                                     createdAt |-> artifact.createdAt,
                                     scanStatus |-> artifact.scanStatus]]
    /\ UNCHANGED <<now, sessions, store, artifacts, nextArt, reqs, sweep, pins>>

\* ---------------------------------------------- GET /v1/artifacts/:sha256Hex
\* The Authorization headers a caller sends: none, another scheme, a bearer
\* token signed with JWT_SECRET for this audience, a forged bearer token.
Authorizations ==
    {Null, <<"Basic", "good">>, <<"Bearer", "good">>, <<"Bearer", "forged">>}

\* verifyJWT(token, 'evidence-locker') with JWT_SECRET configured: the error
\* thrown, NoError for a token jwt.verify accepts.
verifyJWT(token) == IF token = "good" THEN NoError ELSE AuthenticationError

\* The headers sent with a GET: the signature is over the empty body.
ReadHeaders ==
    {[appKey |-> "registry", sig |-> Null],
     [appKey |-> "intruder", sig |-> generateHMACSignature("", "secret1")],
     [appKey |-> "registry", sig |-> generateHMACSignature("", "secret2")],
     [appKey |-> "registry", sig |-> generateHMACSignature("", "secret1")]}

\* A caller that is let through without any check.
C26_NoAuthentication(h, authorization) == NoError

\* HMAC authentication over the empty body, then the bearer fallback of the
\* catch block: the error thrown, NoError when either one passes.
authenticateRead(h, authorization) ==
    IF authenticateRequest(h, "").error = NoError
    THEN NoError
    ELSE IF authorization # Null /\ authorization[1] = "Bearer"
    THEN verifyJWT(authorization[2])
    ELSE AuthenticationError

\* The text of the error authenticateRead throws.
readMessage(authorization, required) ==
    IF authorization # Null /\ authorization[1] = "Bearer"
    THEN "JWT verification failed: invalid signature"
    ELSE required

DownloadHandled == {"NotFoundError", "AuthenticationError"}

\* The request as the reply keeps it.
ReadRequest(op, h, authorization, sha256Hex, publicRead) ==
    [NoResponse EXCEPT !.op = op, !.headers = h, !.authorization = authorization,
                       !.body = [sha256Hex |-> sha256Hex], !.publicRead = publicRead]

\* The reply of the catch block of a read endpoint.
ReadRejected(request, error, message) ==
    LET caught == Catch(error, DownloadHandled) IN
    [request EXCEPT !.status = caught.status, !.code = caught.code,
                    !.message = CatchMessage(error, message, DownloadHandled)]

\* Download: find the artifact; with PUBLIC_READ redirect at once, otherwise
\* authenticate first; the redirect goes to a signed URL of the bucketKey.
\* publicRead is the PUBLIC_READ setting the server runs with.
Download(h, authorization, sha256Hex, publicRead) ==
    /\ LET request == ReadRequest("download", h, authorization, sha256Hex, publicRead)
           artifact == findUniqueArtifact(sha256Hex)
           error == authenticateRead(h, authorization)
           redirect == [request EXCEPT !.status = 302, !.location = artifact.bucketKey]
       IN resp' = IF artifact = NoArtifact
                  THEN ReadRejected(request, NotFoundError, NotFoundError.name)
                  ELSE IF publicRead
                  THEN redirect
                  ELSE IF error # NoError
                  THEN ReadRejected(request, error,
                                    readMessage(authorization, "Authentication required"))
                  ELSE redirect
    /\ UNCHANGED <<now, sessions, store, artifacts, nextArt, reqs, sweep, pins>>

\* ----------------------------------------- GET /v1/artifacts/:sha256Hex/meta
\* Metadata: find the artifact, authenticate, reply with the descriptor.
Meta(h, authorization, sha256Hex) ==
    /\ LET request == ReadRequest("meta", h, authorization, sha256Hex, FALSE)
           artifact == findUniqueArtifact(sha256Hex)
           error == authenticateRead(h, authorization)
       IN resp' = IF artifact = NoArtifact
                  THEN ReadRejected(request, NotFoundError, NotFoundError.name)
                  ELSE IF error # NoError
                  THEN ReadRejected(request, error,
                           readMessage(authorization,
                                       "Authentication required for metadata access"))
                  ELSE [request EXCEPT
                           !.status = 200,
                           !.sent = [artifactId |-> artifact.id,
                                     sha256Hex |-> artifact.sha256Hex,
                                     sizeBytes |-> artifact.sizeBytes,
                                     mime |-> artifact.mime,
                                     filename |-> artifact.filename,
                                     cidV1 |-> artifact.cidV1,
                                     createdAt |-> artifact.createdAt,
                                     projectId |-> artifact.projectId,
                                     issuanceId |-> artifact.issuanceId]]
    /\ UNCHANGED <<now, sessions, store, artifacts, nextArt, reqs, sweep, pins>>

Protocol ==
    \/ \E d \in DeclaredInputs \cup {Null}, f \in Filenames : UploadInit(d, f)
    \/ \E u \in 1..MaxSessions, b \in Blobs : ClientPut(u, b)
    \/ \E u \in 1..(MaxSessions + 1) :
           CompleteStart(Signed("issuer-portal", [uploadId |-> u]), u)
    \/ \E r \in 1..MaxCalls : CompleteHash(r)
    \/ \E r \in 1..MaxCalls : CompleteAbort(r)
    \/ \E r \in 1..MaxCalls : CompleteFind(r)
    \/ \E r \in 1..MaxCalls : CompleteDedup(r)
    \/ \E r \in 1..MaxCalls : CompleteCreate(r)
    \/ \E r \in 1..MaxCalls, pinned \in BOOLEAN : CompletePin(r, pinned)
    \/ \E r \in 1..MaxCalls : CompleteFinal(r)

Admin ==
    \/ \E cutoffDate \in 0..1 :
           SweepStart(Signed("registry", [beforeDate |-> cutoffDate, dryRun |-> FALSE]),
                      cutoffDate, FALSE)
    \/ \E a \in sweep.todo, absentThrows \in BOOLEAN : SweepDeleteObject(a, absentThrows)
    \/ SweepDeleteRow
    \/ SweepReply

\* The ingestion protocol under a running clock.
Next == Protocol \/ Tick

Spec == Init /\ [][Next]_vars

\* The ingestion protocol together with retention sweeps, within one clock
\* unit: a sweep's cutoff lies before (0) or after (1) every createdAt.
NextAdmin == Protocol \/ Admin

SpecAdmin == Init /\ [][NextAdmin]_vars

\* /init alone, with the headers and bodies any caller can send.
InitBodies ==
    {InitBody(f, size, mime, declared, ctx) :
        f \in Filenames, size \in SizeInputs, mime \in MimeInputs,
        declared \in {Null, <<"0", "X", "A", "a", "1", "1">>, InvalidDigest},
        ctx \in {Context}}

NextInit ==
    \/ /\ resp = NoResponse
       /\ \E body \in InitBodies : \E h \in Headers(body) : UploadInitRequest(h, body)
    \/ resp = NoResponse /\ Tick
    \/ ReplySent

SpecInit == Init /\ [][NextInit]_vars

\* Every endpoint with the headers any caller can send, for one session and
\* one complete call within one clock unit.  A reply kept in resp leaves the
\* server before the next step, so that resp is the reply of the last step.
ApiSessions == 1
ApiCalls == 1

ValidBodies ==
    {InitBody(f, 0, "", declared, Context) :
        f \in Filenames, declared \in {Null, <<"0", "X", "A", "a", "1", "1">>}}

Ingest ==
    \/ \E body \in ValidBodies : \E h \in Headers(body) : UploadInitRequest(h, body)
    \/ \E u \in 1..ApiSessions, b \in Blobs : ClientPut(u, b)
    \/ \E u \in 1..(ApiSessions + 1) : \E h \in Headers([uploadId |-> u]) :
           CompleteStart(h, u)
    \/ \E r \in 1..ApiCalls : CompleteHash(r)
    \/ \E r \in 1..ApiCalls : CompleteAbort(r)
    \/ \E r \in 1..ApiCalls : CompleteFind(r)
    \/ \E r \in 1..ApiCalls : CompleteDedup(r)
    \/ \E r \in 1..ApiCalls : CompleteCreate(r)
    \/ \E r \in 1..ApiCalls, pinned \in BOOLEAN : CompletePin(r, pinned)
    \/ \E r \in 1..ApiCalls : CompleteFinal(r)

Operate ==
    \/ \E cutoffDate \in 0..1, dryRun \in BOOLEAN :
           \E h \in AdminHeaders([beforeDate |-> cutoffDate, dryRun |-> dryRun]) :
               SweepStart(h, cutoffDate, dryRun)
    \/ \E a \in sweep.todo, absentThrows \in BOOLEAN : SweepDeleteObject(a, absentThrows)
    \/ SweepDeleteRow
    \/ SweepReply
    \/ \E d \in {DigestA, DigestB} : \E h \in AdminHeaders([sha256Hex |-> d]) : PinStart(h, d)
    \/ \E pinned \in BOOLEAN : PinFile(pinned)
    \/ PinUpdate
    \/ \E d \in {DigestA, DigestB} : \E h \in AdminHeaders([sha256Hex |-> d]) : UnpinStart(h, d)
    \/ \E unpinned \in BOOLEAN : UnpinFile(unpinned)
    \/ UnpinUpdate
    \/ \E d \in {DigestA, DigestB} : \E h \in AdminHeaders([sha256Hex |-> d]) : RescanStart(h, d)
    \/ \E local \in BOOLEAN : RescanHash(local)
    \/ RescanUpdate

NextApi ==
    \/ /\ resp = NoResponse
       /\ Ingest \/ Operate
       /\ Len(sessions') <= ApiSessions
       /\ Len(reqs') <= ApiCalls
    \/ ReplySent

SpecApi == Init /\ [][NextApi]_vars

\* One session and one complete call of the issuer portal, as the other
\* specifications build on it.
Upload ==
    /\ Protocol
    /\ Len(sessions') <= ApiSessions
    /\ Len(reqs') <= ApiCalls

\* Rescans of the registry under a running clock, after an upload whose
\* object the client can still overwrite.
Rescan ==
    \/ \E d \in {DigestA, DigestB} : RescanStart(Signed("registry", [sha256Hex |-> d]), d)
    \/ \E local \in BOOLEAN : RescanHash(local)
    \/ RescanUpdate

NextRescan ==
    \/ resp = NoResponse /\ (Upload \/ Rescan \/ Tick)
    \/ ReplySent

SpecRescan == Init /\ [][NextRescan]_vars

\* The read endpoints with the credentials any caller can send, next to an
\* upload and retention sweeps, within one clock unit.
Read ==
    \/ \E d \in {DigestA, DigestB} : Verify(d)
    \/ \E h \in ReadHeaders, authorization \in Authorizations, d \in {DigestA, DigestB},
          publicRead \in BOOLEAN : Download(h, authorization, d, publicRead)
    \/ \E h \in ReadHeaders, authorization \in Authorizations, d \in {DigestA, DigestB} :
          Meta(h, authorization, d)

NextRead ==
    \/ resp = NoResponse /\ (Upload \/ Admin \/ Read)
    \/ ReplySent

SpecRead == Init /\ [][NextRead]_vars

\* /init of the issuer portal with every filename of up to MaxNameLen
\* characters over a dot, a blank, a letter and a dangerous character, with
\* and without a declared digest.
MaxNameLen == 3
NameChars == {".", " ", "a", ":"}
FilenameInputs ==
    UNION {[1..n -> NameChars] : n \in 1..MaxNameLen}

NextNames ==
    \/ /\ resp = NoResponse
       /\ \E f \in FilenameInputs, declared \in {Null, DigestA} :
             LET body == InitBody(f, 0, "", declared, Context) IN
             UploadInitRequest(Signed("issuer-portal", body), body)
       /\ Len(sessions') <= ApiSessions
    \/ ReplySent

SpecNames == Init /\ [][NextNames]_vars

\* ------------------------------------------------------------ upload tokens
\* randomBytes(32) of one generateUploadToken call: a secret of its own for
\* every call, told apart by the uploadId and the time of the call.
randomBytes(uploadId, at) == <<"random", uploadId, at>>

\* generateUploadToken(uploadId) called at time `at`: jwt.sign of the payload
\* with the fresh secret.  A token is its payload and the secret that signed
\* it (Null for an unsigned token); exp is iat + 5 minutes.
generateUploadToken(uploadId, at) ==
    [uploadId |-> uploadId, type |-> "upload", iat |-> at, exp |-> at + SessionTtl,
     secret |-> randomBytes(uploadId, at)]

\* The tokens the service has issued by now for the upload ids of the model.
IssuedTokens ==
    {generateUploadToken(u, at) : u \in 1..MaxSessions, at \in 0..now}

\* The tokens presented: every payload of the token shape, signed with the
\* secret of the generateUploadToken call for its uploadId and iat, with a
\* secret of the presenter, or not at all.
TokenInputs ==
    UNION {{[uploadId |-> u, type |-> type, iat |-> iat, exp |-> exp,
             secret |-> secret] :
                type \in {"upload", "access"}, exp \in 0..(MaxTime + SessionTtl),
                secret \in {Null, <<"forged">>, randomBytes(u, iat)}} :
           u \in 1..MaxSessions, iat \in 0..MaxTime}

\* jwt.decode(token): the payload, whatever signed the token.
decode(token) ==
    [uploadId |-> token.uploadId, type |-> token.type, iat |-> token.iat,
     exp |-> token.exp]

\* verifyUploadToken(token) at time now: the error thrown, NoError when it
\* returns {uploadId}.
verifyUploadToken(token) ==
    LET decoded == decode(token) IN
    IF decoded.type # "upload" THEN AuthenticationError
    ELSE IF decoded.exp < now THEN AuthenticationError
    ELSE NoError

\* One call of verifyUploadToken: its outcome, kept like a reply.
VerifyUploadToken(token) ==
    /\ LET error == verifyUploadToken(token) IN
       resp' = [Reply("verifyUploadToken", NoResponse.headers, token,
                      error.statusCode, error.code, {}, Null)
                   EXCEPT !.sent = IF error = NoError
                                   THEN [uploadId |-> decode(token).uploadId]
                                   ELSE NoResponse.sent]
    /\ UNCHANGED <<now, sessions, store, artifacts, nextArt, reqs, sweep, pins>>

NextToken ==
    \/ /\ resp = NoResponse
       /\ \/ Tick
          \/ \E token \in TokenInputs : VerifyUploadToken(token)
    \/ ReplySent

SpecToken == Init /\ [][NextToken]_vars

\* ------------------------------------------------- signature comparison
\* .digest('hex') of an HMAC, shortened to HexLength characters: one digest
\* per secret for the body the comparison is exercised with.
HexDigits == {"0", "7", "f"}
hexDigest(signature) ==
    IF signature[1] = "secret1" THEN <<"0", "7", "f", "0">> ELSE <<"f", "0", "7", "7">>

\* The signatures presented in x-app-sig: every string of HexLength hex
\* digits, and those one digit shorter.
SignatureInputs ==
    [1..HexLength -> HexDigits] \cup [1..(HexLength - 1) -> HexDigits]

\* The first position at which two strings of one length differ, their
\* length when they are equal.
FirstDifference(a, b) ==
    IF a = b THEN Len(a)
    ELSE CHOOSE i \in 1..Len(a) : a[i] # b[i] /\ \A j \in 1..(i - 1) : a[j] = b[j]

\* The numbers of code units `expected === presented` may examine: none when
\* the lengths differ; otherwise the language leaves it to the engine, which
\* must reach the first difference and may stop there or go on to the end.
StrictEqualsWork(expected, presented) ==
    IF Len(expected) # Len(presented) THEN {0}
    ELSE FirstDifference(expected, presented)..Len(expected)

\* verifyHMACSignature(body, presented, secret of app) for one body: the
\* result and the code units the comparison examined.
VerifySignature(app, presented) ==
    /\ LET body == [uploadId |-> 1]
           expected == hexDigest(generateHMACSignature(body, parseAppKeys[app]))
       IN \E examined \in StrictEqualsWork(expected, presented) :
              resp' = [Reply("verifyHMACSignature", [appKey |-> app, sig |-> presented],
                             body, 0, "", {}, Null)
                          EXCEPT !.sent = [valid |-> expected = presented,
                                           examined |-> examined]]
    /\ UNCHANGED <<now, sessions, store, artifacts, nextArt, reqs, sweep, pins>>

NextHmac ==
    \/ /\ resp = NoResponse
       /\ \E app \in DOMAIN parseAppKeys, presented \in SignatureInputs :
              VerifySignature(app, presented)
    \/ ReplySent

SpecHmac == Init /\ [][NextHmac]_vars

\* ------------------------------------------------------------ deduplication
\* Sessions that differ in filename and mimeHint, two without a declared
\* digest and one with, their uploads and their complete calls, within one
\* clock unit.
DedupBodies ==
    {InitBody(<<"e", ":", "p">>, 0, "", Null, Context),
     InitBody(<<"a", ".", "c", "s", "v">>, 0, "IMAGE/PNG", Null, Context),
     InitBody(<<"b", ".", "p", "d", "f">>, 0, "", DigestA, Context)}

NextDedup ==
    \/ /\ resp = NoResponse
       /\ \/ \E body \in DedupBodies :
                 UploadInitRequest(Signed("issuer-portal", body), body)
          \/ \E u \in 1..MaxSessions, b \in Blobs : ClientPut(u, b)
          \/ \E u \in 1..MaxSessions :
                 CompleteStart(Signed("issuer-portal", [uploadId |-> u]), u)
          \/ \E r \in 1..MaxCalls : CompleteHash(r)
          \/ \E r \in 1..MaxCalls : CompleteAbort(r)
          \/ \E r \in 1..MaxCalls : CompleteFind(r)
          \/ \E r \in 1..MaxCalls : CompleteDedup(r)
          \/ \E r \in 1..MaxCalls : CompleteCreate(r)
          \/ \E r \in 1..MaxCalls, pinned \in BOOLEAN : CompletePin(r, pinned)
          \/ \E r \in 1..MaxCalls : CompleteFinal(r)
    \/ ReplySent

SpecDedup == Init /\ [][NextDedup]_vars

\* ------------------------------------------------------------- upload size
\* The bytes a client PUTs: one object within MAX_UPLOAD_BYTES and one above
\* it (their digests differ).
SizedBlobs == {<<1>>, <<3, 3, 3>>}

\* Init requests that omit sizeBytes (0) or declare a size within the limit,
\* the PUT of either object and the complete call, for one session.
SizedBodies ==
    {InitBody(f, size, "", Null, Context) : f \in Filenames, size \in {0, 1}}

NextSize ==
    \/ /\ resp = NoResponse
       /\ \/ \E body \in SizedBodies :
                 UploadInitRequest(Signed("issuer-portal", body), body)
          \/ \E u \in 1..ApiSessions, b \in SizedBlobs : ClientPut(u, b)
          \/ \E u \in 1..ApiSessions :
                 CompleteStart(Signed("issuer-portal", [uploadId |-> u]), u)
          \/ \E r \in 1..MaxCalls : CompleteHash(r)
          \/ \E r \in 1..MaxCalls : CompleteFind(r)
          \/ \E r \in 1..MaxCalls : CompleteDedup(r)
          \/ \E r \in 1..MaxCalls : CompleteCreate(r)
          \/ \E r \in 1..MaxCalls, pinned \in BOOLEAN : CompletePin(r, pinned)
          \/ \E r \in 1..MaxCalls : CompleteFinal(r)
       /\ Len(sessions') <= ApiSessions
    \/ ReplySent

SpecSize == Init /\ [][NextSize]_vars

\* ------------------------------------------------------------------ claims
\* Calls are numbered in order of arrival: r1 had responded when r2 arrived.
Sequential(r1, r2) == r1 \in reqs[r2].after
Concurrent(r1, r2) == r1 # r2 /\ ~Sequential(r1, r2) /\ ~Sequential(r2, r1)

\* C1: in every reachable state, under any interleaving of init, client PUT,
\* complete and retention sweep, no two Artifacts have the same digest.
C1_UniqueDigest ==
    \A a, b \in artifacts : a.sha256Hex = b.sha256Hex => a.id = b.id

\* Two calls hashed the same digest; one inserted the Artifact and the
\* other's insert was refused.
C1_Witness ==
    \E r1, r2 \in Calls :
        /\ r1 # r2 /\ reqs[r1].created
        /\ reqs[r2].pc = "done" /\ reqs[r2].code = 500 /\ ~reqs[r2].created
        /\ reqs[r2].sha256 # Null /\ reqs[r2].sha256 = reqs[r1].sha256
        /\ \E a \in artifacts : a.sha256Hex = reqs[r1].sha256

\* C2: concurrent complete calls of distinct sessions whose bytes hash to the
\* same digest all respond successfully with the same artifactId, exactly one
\* of them having created the Artifact.
C2_ConcurrentDedup ==
    \A r1, r2 \in Calls :
        ( /\ Concurrent(r1, r2) /\ reqs[r1].upload # reqs[r2].upload
          /\ reqs[r1].pc = "done" /\ reqs[r2].pc = "done"
          /\ reqs[r1].clean /\ reqs[r2].clean
          /\ reqs[r1].sha256 # Null /\ reqs[r1].sha256 = reqs[r2].sha256
          /\ reqs[r1].code # 409 /\ reqs[r2].code # 409 )
        => /\ reqs[r1].code = 200 /\ reqs[r2].code = 200
           /\ reqs[r1].artifact.id = reqs[r2].artifact.id

\* C3: two concurrent complete calls of the same session both respond
\* successfully with the same artifactId.
C3_SameSessionRace ==
    \A r1, r2 \in Calls :
        ( /\ Concurrent(r1, r2) /\ reqs[r1].upload = reqs[r2].upload
          /\ reqs[r1].pc = "done" /\ reqs[r2].pc = "done"
          /\ reqs[r1].clean /\ reqs[r2].clean
          /\ reqs[r1].sha256 # Null /\ reqs[r2].sha256 # Null
          /\ reqs[r1].code # 409 /\ reqs[r2].code # 409 )
        => /\ reqs[r1].code = 200 /\ reqs[r2].code = 200
           /\ reqs[r1].artifact.id = reqs[r2].artifact.id

\* C4: a session never changes status after it has left PENDING.
C4_TerminalStatus ==
    [][\A u \in Uploads :
          sessions[u].status # "PENDING" => sessions'[u].status = sessions[u].status]_vars

C6_CompletedAtFrozen ==
    [][\A r \in Calls :
          LET u == reqs[r].upload IN
          ( /\ reqs[r].pc # "done" /\ reqs'[r].pc = "done"
            /\ \E r1 \in reqs[r].after : reqs[r1].upload = u /\ reqs[r1].code = 200
            /\ sessions[u].status = "COMPLETE" )
          => sessions'[u].completedAt = sessions[u].completedAt]_vars

\* C7: for every Artifact the bytes stored at its bucketKey hash to its digest
\* and have length sizeBytes.
C7_DigestIntegrity ==
    \A a \in artifacts :
        /\ a.bucketKey \in DOMAIN store
        /\ computeHashFromStream(store[a.bucketKey])
               = [sha256 |-> a.sha256Hex, sizeBytes |-> a.sizeBytes]

\* C8: over its lifetime a session causes the creation of at most one
\* Artifact, whatever the number of complete calls and re-uploads.
C8_OneArtifactPerSession ==
    \A u \in Uploads :
        Cardinality({r \in Calls : reqs[r].upload = u /\ reqs[r].created}) <= 1

\* C9: no session is COMPLETE with a completion time later than its expiresAt.
C9_NoLateComplete ==
    \A u \in Uploads :
        sessions[u].status = "COMPLETE" => sessions[u].completedAt <= sessions[u].expiresAt

\* C10: a complete call arriving for a PENDING session whose expiresAt is
\* before now sets the session EXPIRED, is rejected with 410 and creates no
\* Artifact.
C10_ExpiredMarked ==
    [][\A u \in Uploads :
          ( /\ Len(reqs') = Len(reqs) + 1
            /\ reqs'[Len(reqs')].upload = u
            /\ sessions[u].status = "PENDING"
            /\ sessions[u].expiresAt < now )
          => /\ sessions'[u].status = "EXPIRED"
             /\ reqs'[Len(reqs')].code = 410
             /\ artifacts' = artifacts]_vars

\* C11: a complete call that hashed the stored bytes of a session to a digest
\* other than the declared one marks the session ABORTED when it responds,
\* responds 409 (HASH_MISMATCH, the only 409 of the handler), and neither that
\* step nor the call before it creates an Artifact.
C11_HashMismatchAborts ==
    [][\A r \in Calls :
          LET u == reqs[r].upload IN
          ( /\ reqs[r].pc # "done" /\ reqs'[r].pc = "done"
            /\ reqs[r].sha256 # Null
            /\ sessions[u].sha256Hex # Null
            /\ sessions[u].sha256Hex # reqs[r].sha256 )
          => /\ sessions'[u].status = "ABORTED"
             /\ reqs'[r].code = HashMismatchError.statusCode
             /\ artifacts' = artifacts
             /\ ~reqs'[r].created]_vars

\* A call was rejected for a mismatch and its session is ABORTED.
C11_Witness ==
    \E r \in Calls :
        /\ reqs[r].pc = "done" /\ reqs[r].code = 409 /\ ~reqs[r].created
        /\ reqs[r].sha256 # sessions[reqs[r].upload].sha256Hex
        /\ sessions[reqs[r].upload].status = "ABORTED"

\* C12: the lookup of a complete call takes the dedup branch exactly when the
\* catalog holds an Artifact of the computed digest; the call then responds in
\* its next step, which marks the session COMPLETE (completedAt = now), leaves
\* the catalog and the secondary replica untouched (no create, no pin), and
\* returns the row the lookup found: id, digest, size, mime and bucketKey are
\* those of the row in the catalog, cidV1 the one read by the lookup.
C12_DedupHit ==
    [][\A r \in Calls :
          LET u == reqs[r].upload IN
          /\ (reqs[r].pc = "find" /\ reqs'[r].pc # "find")
             => (reqs'[r].pc = "dedup"
                   <=> \E a \in artifacts : a.sha256Hex = reqs[r].sha256)
          /\ (reqs[r].pc = "dedup" /\ reqs'[r] # reqs[r] /\ reqs'[r].clean = reqs[r].clean)
             => /\ reqs'[r].pc = "done" /\ reqs'[r].code = 200
                /\ sessions'[u].status = "COMPLETE"
                /\ sessions'[u].completedAt = now
                /\ artifacts' = artifacts /\ pins' = pins /\ nextArt' = nextArt
                /\ ~reqs'[r].created
                /\ reqs'[r].artifact = reqs[r].artifact
                /\ reqs'[r].cidV1 = reqs[r].artifact.cidV1
                /\ \E a \in artifacts :
                      /\ a.id = reqs'[r].artifact.id
                      /\ a.sha256Hex = reqs[r].sha256
                      /\ [a EXCEPT !.cidV1 = Null]
                            = [reqs'[r].artifact EXCEPT !.cidV1 = Null]
                      /\ reqs'[r].cidV1 \in {a.cidV1, Null}]_vars

\* A call of another session than the creating one responded from the dedup
\* branch with the Artifact the first call created.
C12_Witness ==
    \E r1, r2 \in Calls :
        /\ reqs[r1].created /\ ~reqs[r2].created
        /\ reqs[r1].upload # reqs[r2].upload
        /\ reqs[r2].pc = "done" /\ reqs[r2].code = 200
        /\ reqs[r2].artifact.id = reqs[r1].artifact.id
        /\ sessions[reqs[r2].upload].status = "COMPLETE"

\* C14: the bucketKey of every Artifact is
\* sha256/<d[0:2]>/<d[2:4]>/<d>/<sanitized filename> for its own digest d.
C14_KeyFromDigest ==
    \A a \in artifacts :
        a.bucketKey = <<"sha256", SubSeq(a.sha256Hex, 1, 2), SubSeq(a.sha256Hex, 3, 4),
                        a.sha256Hex, a.filename>>

\* C13: the pin step of a complete call never ends the call, whether the pin
\* succeeds or not, and leaves the descriptor the call will return untouched
\* except for cidV1 (absent unless the pin succeeded); the call then responds
\* 200 with that descriptor of the Artifact it created and marks the session
\* COMPLETE.  An admin pin that reaches its update sets the cidV1 of the row.
C13_PinFailureTolerated ==
    [][/\ \A r \in Calls :
            LET u == reqs[r].upload IN
            /\ (reqs[r].pc = "pin" /\ reqs'[r].pc # "pin")
               => /\ reqs'[r].pc = "final"
                  /\ reqs'[r].artifact = reqs[r].artifact
                  /\ reqs'[r].created
                  /\ \/ reqs'[r].cidV1 = Null
                     \/ \E a \in artifacts' :
                           a.id = reqs[r].artifact.id /\ a.cidV1 = reqs'[r].cidV1
            /\ (reqs[r].pc = "final" /\ reqs'[r].pc # "final")
               => /\ reqs'[r].pc = "done" /\ reqs'[r].code = 200
                  /\ reqs'[r].artifact = reqs[r].artifact
                  /\ reqs'[r].artifact.sha256Hex = reqs[r].sha256
                  /\ reqs'[r].cidV1 = reqs[r].cidV1
                  /\ sessions'[u].status = "COMPLETE"
       /\ (sweep.pc = "pinUpdate" /\ sweep' # sweep)
          => /\ sweep.cid # Null /\ sweep.cid \in pins
             /\ \A a \in artifacts : a.id = sweep.cur.id
                   => [a EXCEPT !.cidV1 = sweep.cid] \in artifacts']_vars

\* A complete call responded 200 without cidV1 for the Artifact it created,
\* and an admin pin has since set the cidV1 of that Artifact.
C13_Witness ==
    \E r \in Calls :
        /\ reqs[r].pc = "done" /\ reqs[r].code = 200 /\ reqs[r].created
        /\ reqs[r].cidV1 = Null
        /\ sessions[reqs[r].upload].status = "COMPLETE"
        /\ sweep = NoSweep
        /\ \E a \in artifacts : a.id = reqs[r].artifact.id /\ a.cidV1 # Null

\* C15: the session an init call persists holds the projectId and the
\* issuanceId of the context of the request body.
C15_ProvenanceStored ==
    [][Len(sessions') = Len(sessions) + 1
          => /\ sessions'[Len(sessions')].projectId = resp'.body.context.projectId
             /\ sessions'[Len(sessions')].issuanceId = resp'.body.context.issuanceId]_vars

\* C16: an init request with a size above the maximum, a mimeHint outside the
\* allow-list, a declared digest that is invalid after normalization or
\* failing authentication is refused and leaves sessions, catalog and store
\* unchanged; an authenticated request with one of these faults is answered
\* 413 FILE_TOO_LARGE, 415 or 400 respectively.
C16_FailedInitPersistsNothing ==
    [][(resp = NoResponse /\ resp'.op = "init")
          => LET body == resp'.body
                 unauthenticated == authenticateRequest(resp'.headers, body).error # NoError
                 tooLarge == body.sizeBytes > MAX_UPLOAD_BYTES
                 badMime == /\ body.mimeHint # ""
                            /\ mimeToLowerCase(body.mimeHint) \notin DEFAULT_ALLOWED_MIME_TYPES
                 badDigest == /\ body.declaredSha256 # Null
                              /\ ~validateSha256Hash(normalizeSha256Hash(body.declaredSha256))
             IN /\ (unauthenticated \/ tooLarge \/ badMime \/ badDigest)
                   => /\ resp'.status # 201
                      /\ sessions' = sessions /\ artifacts' = artifacts /\ store' = store
                /\ (~unauthenticated /\ tooLarge /\ ~badMime /\ ~badDigest)
                   => resp'.status = 413 /\ resp'.code = "FILE_TOO_LARGE"
                /\ (~unauthenticated /\ ~tooLarge /\ badMime /\ ~badDigest)
                   => resp'.status = 415
                /\ (~unauthenticated /\ ~tooLarge /\ ~badMime /\ badDigest)
                   => resp'.status = 400]_vars

\* An init request with a MIME hint outside the allow-list was answered 415
\* while a session of an earlier request is in the catalog.
C16_Witness ==
    /\ resp.op = "init" /\ resp.status = 415
    /\ resp.body.mimeHint = "application/x-msdownload"
    /\ Len(sessions) = 1

\* C17: an init or complete request whose HMAC authentication fails is
\* answered 401 (AUTHENTICATION) and changes no session and no Artifact.
C17_AuthFailure401 ==
    [][/\ ( /\ resp = NoResponse /\ resp'.op = "init"
            /\ authenticateRequest(resp'.headers, resp'.body).error # NoError )
          => /\ resp'.status = AuthenticationError.statusCode
             /\ sessions' = sessions /\ artifacts' = artifacts
       /\ ( /\ Len(reqs') = Len(reqs) + 1
            /\ reqs'[Len(reqs')].auth.error # NoError )
          => /\ reqs'[Len(reqs')].code = AuthenticationError.statusCode
             /\ sessions' = sessions /\ artifacts' = artifacts]_vars

\* C18: a sweep, pin, unpin or rescan request of an authenticated application
\* other than the registry is answered 403 AUTHORIZATION_ERROR and leaves
\* catalog, object store and secondary replica unchanged; every admin request
\* in progress is one of the registry.
C18_AdminOnlyRegistry ==
    [][/\ ( /\ resp = NoResponse /\ resp'.op \in {"sweep", "pin", "unpin", "rescan"}
            /\ authenticateRequest(resp'.headers, resp'.body).error = NoError
            /\ resp'.headers.appKey # "registry" )
          => /\ resp'.status = 403 /\ resp'.code = "AUTHORIZATION_ERROR"
             /\ UNCHANGED <<sessions, artifacts, store, pins, sweep>>
       /\ sweep'.pc # "idle" => sweep'.by = "registry"]_vars

\* The issuer portal asked for an admin operation while the catalog holds an
\* Artifact and its object, and was answered 403.
C18_Witness ==
    /\ resp.op \in {"sweep", "pin", "unpin", "rescan"} /\ resp.status = 403
    /\ resp.headers.appKey = "issuer-portal"
    /\ \E a \in artifacts : a.bucketKey \in DOMAIN store

\* C19: during a non-dry-run sweep the list of deleted artifacts grows by
\* exactly the rows the sweep removes from the catalog, each one an artifact
\* of the work list whose object the sweep has removed from the store just
\* before; an artifact whose deletion failed is dropped from the work list
\* without being listed and the others stay to be processed; the reply is
\* sent only when the work list is empty.
C19_SweepListsDeleted ==
    [][sweep.pc \in {"loop", "row"}
          => LET removed == {a.id : a \in artifacts} \ {a.id : a \in artifacts'}
                 listed == sweep'.deleted \ sweep.deleted
             IN /\ sweep'.pc # "idle"
                   => /\ listed = removed
                      /\ sweep.deleted \subseteq sweep'.deleted
                      /\ listed # {} => sweep.pc = "row" /\ listed = {sweep.cur.id}
                      /\ (sweep.pc = "loop" /\ sweep'.pc = "row")
                         => /\ sweep'.cur \in sweep.todo
                            /\ sweep'.cur.bucketKey \notin DOMAIN store'
                      /\ sweep'.deleted \cap {a.id : a \in artifacts'} = {}
                /\ (sweep.pc = "loop" /\ sweep'.pc = "loop" /\ sweep' # sweep)
                   => /\ listed = {}
                      /\ \E a \in sweep.todo : sweep'.todo = sweep.todo \ {a}
                /\ sweep'.pc = "idle"
                   => sweep.todo = {} /\ sweep.pc = "loop" /\ removed = {}]_vars

\* A sweep is about to reply: it lists an artifact it deleted, and an artifact
\* whose object is gone is still in the catalog, unlisted.
C19_Witness ==
    /\ sweep.pc = "loop" /\ sweep.todo = {} /\ sweep.deleted # {}
    /\ \E a \in artifacts : a.bucketKey \notin DOMAIN store /\ a.id \notin sweep.deleted

\* C20: a dry-run sweep of the registry is answered 200 with the artifacts
\* whose createdAt is before beforeDate and changes nothing; no sweep in
\* progress is a dry run.
C20_DryRunDeletesNothing ==
    [][/\ ( /\ resp = NoResponse /\ resp'.op = "sweep" /\ resp'.body.dryRun
            /\ resp'.headers = Signed("registry", resp'.body) )
          => /\ resp'.status = 200
             /\ resp'.artifacts
                   = {a.id : a \in {x \in artifacts : x.createdAt < resp'.body.beforeDate}}
             /\ UNCHANGED <<sessions, artifacts, store, pins, sweep, nextArt>>
       /\ sweep'.pc # "idle" => ~sweep'.dryRun]_vars

\* A dry run listed an Artifact, which is still in the catalog with its
\* object in the store.
C20_Witness ==
    /\ resp.op = "sweep" /\ resp.body.dryRun /\ resp.status = 200
    /\ resp.artifacts # {}
    /\ \A id \in resp.artifacts :
          \E a \in artifacts : a.id = id /\ a.bucketKey \in DOMAIN store

\* C21: deleting an absent object is not an error: a sweep that comes to an
\* artifact of its work list whose object is absent from the store goes on to
\* delete its catalog row (and then lists it as deleted).
C21_AbsentObjectDeleted ==
    [][( /\ sweep.pc = "loop" /\ sweep' # sweep /\ sweep'.pc # "idle"
         /\ \E a \in sweep.todo : a \notin sweep'.todo \/ sweep'.cur = a
         /\ store' = store )
          => /\ sweep'.pc = "row"
             /\ sweep'.cur \in sweep.todo
             /\ sweep'.cur.bucketKey \notin DOMAIN store]_vars

\* C22: the hash step of a rescan whose object does not hash to the stored
\* digest ends the request with 500 STORAGE_ERROR and leaves the catalog as it
\* is; on a match the request goes on to its update, which sets scanStatus
\* CLEAN and verifiedAt = now on that artifact and changes nothing else.  No
\* other step of a rescan changes scanStatus or verifiedAt of an artifact.
C22_RescanComparesDigest ==
    [][/\ (sweep.pc = "rescanHash" /\ sweep' # sweep)
          => LET key == sweep.cur.bucketKey IN
             /\ UNCHANGED <<artifacts, store, sessions, pins>>
             /\ (key \in DOMAIN store /\ Sha256(store[key]) # sweep.cur.sha256Hex)
                => /\ sweep' = NoSweep
                   /\ resp'.op = "rescan" /\ resp'.status = 500
                   /\ resp'.code = "STORAGE_ERROR"
             /\ (key \in DOMAIN store /\ Sha256(store[key]) = sweep.cur.sha256Hex)
                => sweep'.pc = "rescanUpdate" /\ resp' = NoResponse
       /\ (sweep.pc = "rescanUpdate" /\ sweep' # sweep)
          => /\ UNCHANGED <<store, sessions, pins, nextArt>>
             /\ resp'.op = "rescan" /\ resp'.status = 200
             /\ Cardinality(artifacts') = Cardinality(artifacts)
             /\ \A a \in artifacts :
                   IF a.id = sweep.cur.id
                   THEN [a EXCEPT !.scanStatus = "CLEAN", !.verifiedAt = now] \in artifacts'
                   ELSE a \in artifacts'
       /\ \A a \in artifacts, b \in artifacts' :
             (a.id = b.id /\ (a.scanStatus # b.scanStatus \/ a.verifiedAt # b.verifiedAt))
             => sweep.pc = "rescanUpdate"]_vars

\* A rescan marked an artifact CLEAN at a later time than its creation; after
\* the object was overwritten a second rescan was answered STORAGE_ERROR and
\* the artifact is as the first rescan left it.
C22_Witness ==
    /\ resp.op = "rescan" /\ resp.status = 500 /\ resp.code = "STORAGE_ERROR"
    /\ \E a \in artifacts :
          /\ a.sha256Hex = resp.body.sha256Hex
          /\ a.scanStatus = "CLEAN" /\ a.verifiedAt > a.createdAt
          /\ a.bucketKey \in DOMAIN store
          /\ Sha256(store[a.bucketKey]) # a.sha256Hex

\* C23: an admin pin of the registry for a digest whose Artifact already has
\* a cidV1 is answered at once with that cidV1, with catalog, replica and store
\* unchanged; an admin pin goes to the replica only for an Artifact that had no
\* cidV1 when the request looked it up, and only such a request touches the
\* replica.
C23_PinnedOnce ==
    [][/\ ( /\ resp = NoResponse /\ resp'.op = "pin"
            /\ resp'.headers = Signed("registry", resp'.body)
            /\ \E a \in artifacts : a.sha256Hex = resp'.body.sha256Hex /\ a.cidV1 # Null )
          => /\ resp'.status = 200
             /\ \E a \in artifacts :
                   a.sha256Hex = resp'.body.sha256Hex /\ resp'.cidV1 = a.cidV1
             /\ UNCHANGED <<artifacts, pins, store, sweep>>
       /\ sweep'.pc \in {"pinFile", "pinUpdate"} => sweep'.cur.cidV1 = Null
       /\ (sweep.pc = "idle" /\ sweep'.pc = "pinFile")
          => \E a \in artifacts : a = sweep'.cur /\ a.cidV1 = Null
       /\ (sweep.pc \in {"idle", "pinFile", "pinUpdate"} /\ pins' # pins /\ reqs' = reqs)
          => sweep.pc = "pinFile" /\ sweep'.cid \in pins']_vars

\* A repeated admin pin was answered with the cidV1 an earlier pin stored:
\* the content is on the replica and the complete call had not pinned it.
C23_Witness ==
    /\ resp.op = "pin" /\ resp.status = 200 /\ resp.cidV1 # Null
    /\ resp.cidV1 \in pins
    /\ \E a \in artifacts : a.sha256Hex = resp.body.sha256Hex /\ a.cidV1 = resp.cidV1
    /\ \E r \in Calls : reqs[r].pc = "done" /\ reqs[r].created /\ reqs[r].cidV1 = Null

\* C24: no step changes anything but cidV1, scanStatus and verifiedAt of an
\* Artifact that stays in the catalog: its digest, sizeBytes, bucketKey and
\* createdAt (and every other column) are as they were.
C24_ArtifactImmutable ==
    [][\A a \in artifacts, b \in artifacts' :
          a.id = b.id
          => /\ b.sha256Hex = a.sha256Hex /\ b.sizeBytes = a.sizeBytes
             /\ b.bucketKey = a.bucketKey /\ b.createdAt = a.createdAt
             /\ [b EXCEPT !.cidV1 = a.cidV1, !.scanStatus = a.scanStatus,
                          !.verifiedAt = a.verifiedAt] = a]_vars

\* An Artifact pinned by the complete call that created it has been unpinned
\* and rescanned by the registry: its mutable columns have been written.
C24_Witness ==
    /\ sweep = NoSweep
    /\ \E a \in artifacts :
          /\ a.scanStatus = "CLEAN" /\ a.cidV1 = Null
          /\ a.bucketKey \in DOMAIN store
          /\ Cid(store[a.bucketKey]) \notin pins
          /\ \E r \in Calls : reqs[r].pc = "done" /\ reqs[r].created
                              /\ reqs[r].artifact.id = a.id /\ reqs[r].cidV1 # Null

\* C25: the verify probe answers 200 with exists = true exactly when the
\* catalog holds an Artifact of the digest, and then with the size, mime,
\* cidV1, createdAt and scanStatus of that row, whatever the object store
\* holds at its bucketKey; the probe changes no state.
C25_VerifyReadsCatalogOnly ==
    [][(resp = NoResponse /\ resp'.op = "verify")
          => LET d == resp'.body.sha256Hex
                 rows == {a \in artifacts : a.sha256Hex = d}
             IN /\ resp'.status = 200
                /\ resp'.sent.exists <=> rows # {}
                /\ rows = {} => resp'.sent = [exists |-> FALSE]
                /\ \A a \in rows :
                      resp'.sent = [exists |-> TRUE, sizeBytes |-> a.sizeBytes,
                                    mime |-> a.mime, cidV1 |-> a.cidV1,
                                    createdAt |-> a.createdAt, scanStatus |-> a.scanStatus]
                /\ UNCHANGED <<now, sessions, store, artifacts, nextArt, reqs, sweep, pins>>]_vars

\* The probe answered exists = true for an Artifact whose object a sweep has
\* just removed from the store.
C25_Witness ==
    /\ resp.op = "verify" /\ resp.sent.exists
    /\ \E a \in artifacts :
          a.sha256Hex = resp.body.sha256Hex /\ a.bucketKey \notin DOMAIN store

\* C26: a download or metadata request that carries neither a valid HMAC
\* signature of a known application nor a bearer token verifyJWT accepts is
\* never answered with a download URL when PUBLIC_READ is off, and never with
\* the descriptor; it is answered 401 AUTHENTICATION_ERROR when the digest is
\* in the catalog and 404 NOT_FOUND when it is not.  Every request for an
\* unknown digest is answered 404, and no read request changes any state.
C26_ReadsRequireAuthentication ==
    [][(resp = NoResponse /\ resp'.op \in {"download", "meta"})
          => LET h == resp'.headers
                 hmac == /\ h.appKey \in DOMAIN parseAppKeys
                         /\ h.sig = generateHMACSignature("", parseAppKeys[h.appKey])
                 bearer == resp'.authorization = <<"Bearer", "good">>
                 known == \E a \in artifacts : a.sha256Hex = resp'.body.sha256Hex
                 closed == resp'.op = "meta" \/ ~resp'.publicRead
             IN /\ (~hmac /\ ~bearer /\ closed)
                   => /\ resp'.location = Null /\ resp'.status # 302
                      /\ resp'.sent = NoResponse.sent
                      /\ known => resp'.status = 401 /\ resp'.code = "AUTHENTICATION_ERROR"
                /\ ~known => /\ resp'.status = 404 /\ resp'.code = "NOT_FOUND"
                             /\ resp'.location = Null /\ resp'.sent = NoResponse.sent
                /\ resp'.op = "download" => resp'.sent = NoResponse.sent
                /\ UNCHANGED <<now, sessions, store, artifacts, nextArt, reqs, sweep, pins>>]_vars

\* With PUBLIC_READ off, a download of an Artifact of the catalog with a
\* wrong signature and a forged bearer token was answered 401.
C26_Witness ==
    /\ resp.op = "download" /\ ~resp.publicRead /\ resp.status = 401
    /\ resp.headers.appKey = "registry" /\ resp.headers.sig # Null
    /\ resp.authorization = <<"Bearer", "forged">>
    /\ \E a \in artifacts : a.sha256Hex = resp.body.sha256Hex

\* C27: a complete call that fails while opening or hashing the object is
\* answered 500 and changes neither the session nor the catalog; a complete
\* call of an authenticated caller for an existing session that has not
\* expired is always taken to the hashing step, whatever earlier calls did.
C27_StorageFailureRetryable ==
    [][/\ \A r \in Calls :
            (reqs[r].pc = "hash" /\ reqs'[r].pc = "done")
            => /\ reqs'[r].code = 500
               /\ sessions[reqs[r].upload].bucketKey \notin DOMAIN store
               /\ sessions' = sessions /\ artifacts' = artifacts /\ nextArt' = nextArt
               /\ ~reqs'[r].created
       /\ ( /\ Len(reqs') = Len(reqs) + 1
            /\ reqs'[Len(reqs')].auth.error = NoError
            /\ reqs'[Len(reqs')].upload \in Uploads
            /\ sessions[reqs'[Len(reqs')].upload].expiresAt >= now )
          => reqs'[Len(reqs')].pc = "hash"]_vars

\* A complete call failed on the absent object and left the session PENDING;
\* after the client's PUT a later call of the same session created the
\* Artifact and the session is COMPLETE.
C27_Witness ==
    \E r1, r2 \in Calls :
        /\ Sequential(r1, r2) /\ reqs[r1].upload = reqs[r2].upload
        /\ reqs[r1].pc = "done" /\ reqs[r1].code = 500 /\ reqs[r1].sha256 = Null
        /\ reqs[r2].pc = "done" /\ reqs[r2].code = 200 /\ reqs[r2].created
        /\ sessions[reqs[r2].upload].status = "COMPLETE"

\* C28: an init request that passes every other check and carries a mimeHint
\* is refused with 415 exactly when the lowercase form of the hint is none of
\* application/pdf, image/png, image/jpeg, text/csv, application/json,
\* application/zip, application/x-zip-compressed, text/plain and
\* application/octet-stream.
C28_NineMimeTypes ==
    [][( /\ resp = NoResponse /\ resp'.op = "init" /\ resp'.body.mimeHint # ""
         /\ authenticateRequest(resp'.headers, resp'.body).error = NoError
         /\ resp'.body.sizeBytes <= MAX_UPLOAD_BYTES
         /\ \/ resp'.body.declaredSha256 = Null
            \/ validateSha256Hash(normalizeSha256Hash(resp'.body.declaredSha256)) )
          => ( resp'.status = 415
                  <=> mimeToLowerCase(resp'.body.mimeHint) \notin
                         {"application/pdf", "image/png", "image/jpeg", "text/csv",
                          "application/json", "application/zip",
                          "application/x-zip-compressed", "text/plain",
                          "application/octet-stream"} )]_vars

\* C29: the filename an init call stores is a fixed point of the sanitizer,
\* sanitize(sanitize(f)) = sanitize(f), and the bucketKey built from the
\* request's filename is the one built from the stored, sanitized filename.
C29_SanitizerIdempotent ==
    \A u \in Uploads :
        /\ sanitizeFilename(sessions[u].filename) = sessions[u].filename
        /\ sessions[u].sha256Hex # Null
           => generateBucketKey(sessions[u].sha256Hex, sessions[u].filename)
                 = sessions[u].bucketKey

\* The error classes the catch block of each endpoint lists.
HandledBy(op) ==
    CASE op = "init" -> InitHandled
      [] op = "sweep" -> {"AuthorizationError"}
      [] op \in {"pin", "unpin"} -> PinHandled
      [] op = "rescan" -> RescanHandled
      [] OTHER -> CompleteHandled

\* The two causes of an HMAC failure the caller must not tell apart.
UnknownKey(h) == h.appKey # "" /\ h.sig # Null /\ h.appKey \notin DOMAIN parseAppKeys
WrongSignature(h, body) ==
    /\ h.appKey \in DOMAIN parseAppKeys /\ h.sig # Null
    /\ ~verifyHMACSignature(body, h.sig, parseAppKeys[h.appKey])

\* The same request failing for the other cause: a known key with the
\* signature of another secret for an unknown key, and the reverse.
OtherCause(h, body) ==
    IF UnknownKey(h)
    THEN [appKey |-> "registry", sig |-> generateHMACSignature(body, "secret2")]
    ELSE [appKey |-> "intruder", sig |-> h.sig]

Visible(reply) == <<reply.status, reply.code, reply.message>>

\* C30: the status, error code and message answered to a request with an
\* unknown x-app-key are those answered to the same request with a known key
\* and a wrong signature, and the reverse, on /init and the admin endpoints;
\* a /complete call rejected for either cause ends with the same status.
C30_HmacCauseHidden ==
    [][/\ (resp = NoResponse /\ resp' # NoResponse
           /\ (UnknownKey(resp'.headers) \/ WrongSignature(resp'.headers, resp'.body)))
          => LET h == resp'.headers
                 body == resp'.body
                 other == OtherCause(h, body)
             IN /\ authenticateRequest(other, body).error = AuthenticationError
                /\ authenticateRequest(other, body).message
                      # authenticateRequest(h, body).message
                /\ Visible(resp')
                      = Visible(Rejected(resp'.op, other, body, AuthenticationError,
                                         HandledBy(resp'.op)))
       /\ Len(reqs') > Len(reqs)
          => LET r == Len(reqs')
                 body == [uploadId |-> reqs'[r].upload]
             IN \A h \in Headers(body) :
                    (reqs'[r].auth = authenticateRequest(h, body)
                     /\ (UnknownKey(h) \/ WrongSignature(h, body)))
                    => reqs'[r].code
                          = Catch(authenticateRequest(OtherCause(h, body), body).error,
                                  CompleteHandled).status
      ]_vars

\* An init call with an unknown application key is answered 500 'Internal
\* server error' without an error code.
C30_Witness ==
    /\ resp.op = "init"
    /\ UnknownKey(resp.headers)
    /\ Visible(resp) = <<500, "", "Internal server error">>

\* C31: verifyUploadToken returns an uploadId only for a token the service
\* issued (signed by generateUploadToken for that uploadId) that is not past
\* its exp; every other token, signed with another secret or unsigned, is
\* rejected with an authentication error.
C31_OnlyIssuedTokens ==
    [][(resp = NoResponse /\ resp'.op = "verifyUploadToken")
          => IF resp'.body \in IssuedTokens /\ resp'.body.exp >= now
             THEN resp'.sent = [uploadId |-> resp'.body.uploadId]
             ELSE resp'.code = AuthenticationError.code
      ]_vars

\* C32: a complete call that read the object of an unexpired session and
\* finds the session still PENDING when it ends leaves it in one terminal
\* state: COMPLETE exactly when it answers 200 with the artifact, ABORTED
\* exactly when it answers 409 HASH_MISMATCH, and never PENDING, also when
\* calls for other sessions with the same digest run concurrently.
C32_OneTerminalState ==
    [][\A r \in Calls :
          (/\ reqs[r].pc \in {"abort", "find", "dedup", "create", "pin", "final"}
           /\ reqs'[r].pc = "done"
           /\ sessions[reqs[r].upload].status = "PENDING")
          => /\ sessions'[reqs[r].upload].status \in {"COMPLETE", "ABORTED"}
             /\ reqs'[r].code = 200 <=> sessions'[reqs[r].upload].status = "COMPLETE"
             /\ reqs'[r].code = 409 <=> sessions'[reqs[r].upload].status = "ABORTED"
      ]_vars

\* C33: the comparison of the expected with a presented signature of the
\* same length examines every code unit, wherever the first difference is:
\* the work of a verification does not depend on the presented signature.
C33_ConstantTimeCompare ==
    [][(resp = NoResponse /\ resp'.op = "verifyHMACSignature"
        /\ Len(resp'.headers.sig) = HexLength)
          => resp'.sent.examined = HexLength
      ]_vars

C35_DedupKeepsArtifact ==
    [][\A r \in Calls :
          (\/ reqs[r].pc = "find" /\ reqs'[r].pc = "dedup"
           \/ reqs[r].pc = "dedup" /\ reqs'[r].pc = "done")
          => /\ artifacts' = artifacts
             /\ reqs[r].pc = "dedup"
                => /\ reqs'[r].code = 200 /\ ~reqs'[r].created
                   /\ reqs'[r].artifact \in
                         {[a EXCEPT !.cidV1 = reqs'[r].artifact.cidV1] : a \in artifacts'}
                   /\ reqs'[r].artifact.sha256Hex = reqs[r].sha256
      ]_vars

\* A call for a session with another filename and mimeHint than the row of
\* its digest was answered 200 by the deduplication branch.
C35_Witness ==
    \E r \in Calls : \E a \in artifacts :
        /\ reqs[r].pc = "done" /\ reqs[r].code = 200 /\ ~reqs[r].created
        /\ a.sha256Hex = reqs[r].sha256
        /\ sessions[reqs[r].upload].filename # a.filename
        /\ sessions[reqs[r].upload].mimeHint # a.mime
        /\ sessions[reqs[r].upload].status = "COMPLETE"

\* C36: a complete call that arrives after another call for the same session
\* was answered 200 or 409, so that the session was COMPLETE or ABORTED when
\* it arrived, creates no Artifact.
C36_TerminalSessionCreatesNothing ==
    [][\A r \in Calls :
          (reqs[r].pc = "create" /\ reqs'[r].created)
          => ~\E r0 \in reqs[r].after :
                 /\ reqs[r0].upload = reqs[r].upload
                 /\ reqs[r0].code \in {200, 409}
      ]_vars

\* C37: in every reachable state no two distinct Artifact rows have the same
\* bucketKey.
C37_UniqueBucketKey ==
    \A a \in artifacts : \A b \in artifacts :
        a.bucketKey = b.bucketKey => a = b

\* C38: when a non-dry-run sweep is done with an artifact of its list, the
\* artifact is fully removed or fully retained: after the row delete its
\* record is out of the catalog, and an artifact the loop drops after a
\* failed delete still has its object if it still has its record.
C38_SweepRemovesBoth ==
    [][/\ (sweep.pc = "row" /\ sweep'.pc = "loop")
          => \A x \in artifacts' : x.id # sweep.cur.id
       /\ (sweep.pc = "loop" /\ sweep'.pc = "loop" /\ sweep' # sweep)
          => \A a \in sweep.todo \ sweep'.todo :
                 a \in artifacts' => a.bucketKey \in DOMAIN store'
      ]_vars

\* C39: in every reachable state every Artifact of the catalog has
\* sizeBytes <= MAX_UPLOAD_BYTES, whatever size the init declared or omitted.
C39_ArtifactWithinLimit ==
    \A a \in artifacts : a.sizeBytes <= MAX_UPLOAD_BYTES

====
